---- MODULE Spec2Model ----
(***************************************************************************)
(* A model of cmonkey/rsat.py (the RSAT mirror client) and of              *)
(* cmonkey/parkinson.py (the Homo Sapiens / Parkinson's configuration and  *)
(* its main program).                                                      *)
(*                                                                         *)
(* Two specifications share the module:                                    *)
(*   Spec      the main program of parkinson.py: argument check,           *)
(*             configuration, make_row_scoring and the driver loop;        *)
(*   RsatSpec  callers of one RsatDatabase fetching over HTTP.             *)
(* parkinson.py never touches RsatDatabase, so each specification leaves   *)
(* the other's variables at their initial values.                          *)
(***************************************************************************)
EXTENDS Integers, Sequences, FiniteSets, TLC

VARIABLES
    \* ---- rsat.py ----
    base_url,      \* RsatDatabase.base_url
    server,        \* the mirror: URL -> status it answers with, for the URLs asked so far
    call,          \* per caller: the fetch in progress (position, arguments, opener, outcome)
    next_opener,   \* number of CMonkeyURLopener instances constructed so far
    base_url0      \* history: base_url as passed to RsatDatabase.__init__

rsat_vars == <<base_url, server, call, next_opener, base_url0>>

VARIABLES
    \* ---- parkinson.py ----
    argv,             \* sys.argv
    ratio_readable,   \* environment: whether the ratio file can be read
    pc,               \* position of the main program
    stdout,           \* the lines printed so far
    CHECKPOINT_FILE,  \* the module global ("" is None)
    conf,             \* the CMonkeyConfiguration (conf.exists is FALSE before create)
    heap,             \* the objects constructed so far; a reference is an index, 0 is None
    calls,            \* probe: how often each factory method has been invoked
    returned,         \* probe: the objects each accessor has returned
    locals,           \* the local variables of make_row_scoring
    run_called,       \* whether cmonkey.run_cmonkey has been entered
    iteration,        \* the driver's iteration index
    steps,            \* number of iterations the driver has made in this run
    combine,          \* the combiner's call in progress
    exit_status       \* the process's exit status (-1 while it runs)

main_vars == <<argv, ratio_readable, pc, stdout, CHECKPOINT_FILE, conf, heap,
               calls, returned, locals, run_called, iteration, steps, combine,
               exit_status>>

vars == <<rsat_vars, main_vars>>

(***************************************************************************)
(* Bounds of the model.                                                    *)
(***************************************************************************)
NumCallers == 2
MaxFetches == 2
MaxIterations == 2
MaxClusters == 2

Callers == 1..NumCallers

(***************************************************************************)
(*                              rsat.py                                    *)
(***************************************************************************)

\* Python's str.join: the segments with sep between neighbours.
RECURSIVE Join(_, _)
Join(sep, segs) ==
    IF Len(segs) = 0 THEN ""
    ELSE IF Len(segs) = 1 THEN segs[1]
    ELSE segs[1] \o sep \o Join(sep, Tail(segs))

DIR_PATH == "data/genomes"
ORGANISM_FILE_PATH == "genome/organism.tab"
ORGANISM_NAMES_FILE_PATH == "genome/organism_names.tab"

\* The mirrors and organisms the callers draw their arguments from.
BaseUrls == {"http://rsat.ccb.sickkids.ca", "http://rsat.ulb.ac.be/rsat"}
Organisms == {"Homo_sapiens", "Homo_sapiens_EnsEMBL"}

\* What the mirror can answer a GET with.  -1 is urllib's errcode for a reply
\* without a usable status line; 200 is success; 404, 500 and 503 are error
\* statuses for which FancyURLopener has no http_error_<code> method, so they
\* reach http_error_default.
Statuses == {-1, 200, 404, 500, 503}

\* The body the mirror sends along with a status for a URL.
ServerBody(url, errcode) ==
    IF 200 <= errcode /\ errcode < 300 THEN "document at " \o url
    ELSE "<html>error page</html>"

\* Outcomes of a Python call: a returned value or a raised exception.
NoResult == [kind |-> "none", exc |-> "", value |-> ""]
Returned(value) == [kind |-> "returned", exc |-> "", value |-> value]
Raised(exc, arg) == [kind |-> "raised", exc |-> exc, value |-> arg]

\* urllib.FancyURLopener.http_error_default, the super class handler the
\* override delegates to: "Default error handling -- don't raise an
\* exception"; it hands back the response object, whose read() is the body
\* of the error page.
FancyURLopener_http_error_default(url, errcode, body) == Returned(body)

\* Variant: the override without its 404 check.
http_error_default_no404(url, errcode, body) ==
    FancyURLopener_http_error_default(url, errcode, body)

\* CMonkeyURLopener.http_error_default
http_error_default(url, errcode, body) ==
    IF errcode = 404
    THEN Raised("DocumentNotFound", url)
    ELSE FancyURLopener_http_error_default(url, errcode, body)

\* CMonkeyURLopener().open(url).read() once the mirror has answered:
\* urllib raises IOError on a bad status line, returns the response for a
\* 2xx status and hands every other status to http_error, which for the
\* statuses above ends in http_error_default.
read_url(url, errcode, body) ==
    IF errcode = -1 THEN Raised("IOError", "http protocol error")
    ELSE IF 200 <= errcode /\ errcode < 300 THEN Returned(body)
    ELSE http_error_default(url, errcode, body)

\* Variant: one module-level opener used by every read_url.
CMonkeyURLopener_shared(constructed) == 1

\* The instance a call of the constructor CMonkeyURLopener() yields, given
\* the number of instances constructed before: a new one.
CMonkeyURLopener_new(constructed) == constructed + 1

\* The arguments of "/".join in each fetch method of RsatDatabase.
get_directory_html_path(self_base_url) ==
    <<self_base_url, DIR_PATH>>

get_organism_file_path(self_base_url, organism) ==
    <<self_base_url, DIR_PATH, organism, ORGANISM_FILE_PATH>>

get_organism_names_file_path(self_base_url, organism) ==
    <<self_base_url, DIR_PATH, organism, ORGANISM_FILE_PATH>>

\* Variant: the EnsEMBL fetch asking for the names file.
get_ensembl_organism_names_file_path_names(self_base_url, organism) ==
    <<self_base_url, DIR_PATH, organism \o "_EnsEMBL", ORGANISM_NAMES_FILE_PATH>>

get_ensembl_organism_names_file_path(self_base_url, organism) ==
    <<self_base_url, DIR_PATH, organism \o "_EnsEMBL", ORGANISM_FILE_PATH>>

IdleCall == [pc |-> "idle", op |-> "", organism |-> "", url |-> "",
             opener |-> 0, status |-> 0, result |-> NoResult]

\* A fetch method up to the point where read_url has built its opener and
\* the opener has sent the GET for the joined URL.
StartFetch(c, op, organism, path) ==
    /\ call[c].pc = "idle"
    /\ next_opener < MaxFetches
    /\ call' = [call EXCEPT ![c] =
                  [pc |-> "open", op |-> op, organism |-> organism,
                   url |-> Join("/", path),
                   opener |-> CMonkeyURLopener_new(next_opener),
                   status |-> 0, result |-> NoResult]]
    /\ next_opener' = next_opener + 1
    /\ UNCHANGED <<base_url, base_url0, server>>
    /\ UNCHANGED main_vars

get_directory_html(c) ==
    StartFetch(c, "get_directory_html", "",
               get_directory_html_path(base_url))

get_organism_file(c, organism) ==
    StartFetch(c, "get_organism_file", organism,
               get_organism_file_path(base_url, organism))

get_organism_names_file(c, organism) ==
    StartFetch(c, "get_organism_names_file", organism,
               get_organism_names_file_path(base_url, organism))

get_ensembl_organism_names_file(c, organism) ==
    StartFetch(c, "get_ensembl_organism_names_file", organism,
               get_ensembl_organism_names_file_path(base_url, organism))

\* The status the mirror has for a URL it was asked for before.
Answered(url) == {a \in server : a[1] = url}

\* The mirror answers the GET of caller c; open() dispatches on the status
\* and read_url returns or raises.  The mirror's answer for a URL is chosen
\* the first time the URL is asked for and is the same from then on.
ReadUrlEnds(c) ==
    /\ call[c].pc = "open"
    /\ \E errcode \in Statuses :
          /\ Answered(call[c].url) # {} => <<call[c].url, errcode>> \in server
          /\ server' = server \cup {<<call[c].url, errcode>>}
          /\ call' = [call EXCEPT
                        ![c].pc = "done",
                        ![c].status = errcode,
                        ![c].result = read_url(call[c].url, errcode,
                                               ServerBody(call[c].url, errcode))]
    /\ UNCHANGED <<base_url, base_url0, next_opener>>
    /\ UNCHANGED main_vars

\* The caller has consumed the outcome and is free to fetch again.
CallerContinues(c) ==
    /\ call[c].pc = "done"
    /\ call' = [call EXCEPT ![c] = IdleCall]
    /\ UNCHANGED <<base_url, base_url0, server, next_opener>>
    /\ UNCHANGED main_vars


(***************************************************************************)
(*                            parkinson.py                                 *)
(***************************************************************************)

CHECKPOINT_INTERVAL == 3
NUM_ITERATIONS == 2000
CACHE_DIR == "parkinson_cache"
NUM_CLUSTERS == 267
ROW_WEIGHT == 6
MAX_MOTIF_WIDTH == 12

THESAURUS_FILE == "parkinson_data/synonymThesaurus.csv.gz"

SEQUENCE_TYPES == <<"upstream", "p3utr">>
SEARCH_DISTANCES == [upstream |-> <<0, 700>>, p3utr |-> <<0, 831>>]
SCAN_DISTANCES == [upstream |-> <<0, 700>>, p3utr |-> <<0, 831>>]
PROM_SEQFILE == "parkinson_data/promoterSeqs_ilmn_Homo_sapiens.csv.gz"
P3UTR_SEQFILE == "parkinson_data/p3utrSeqs_ilmn_Homo_sapiens.csv.gz"
SEQ_FILENAMES == [upstream |-> PROM_SEQFILE, p3utr |-> P3UTR_SEQFILE]

\* The region whose sequences a sequence file holds: promoter sequences lie
\* upstream of the gene, the other file holds the 3' UTRs.
RegionOfFile(filename) ==
    IF filename = PROM_SEQFILE THEN "upstream"
    ELSE IF filename = P3UTR_SEQFILE THEN "p3utr"
    ELSE "unknown"

\* The command lines the program is started with.
ArgvChoices ==
    { <<"parkinson.py">>,
      <<"parkinson.py", "ratios.tsv">>,
      <<"parkinson.py", "ratios.tsv", "checkpoint.bin">> }

\* The iterations a checkpoint file can have been written at (two of them).
ResumePoints == {CHECKPOINT_INTERVAL, NUM_ITERATIONS - 2}

\* The genes and clusters of the modelled matrix, and the values a scoring
\* function gives a (gene, cluster) pair.
Genes == {"gene1"}
Clusters == 1..MaxClusters
Pairs == Genes \X Clusters
ScoreValues == {-1, 0, 2}
ScoreMatrices == [Pairs -> ScoreValues]
ZeroMatrix == [p \in Pairs |-> 0]

\* The weight functions of make_row_scoring, named by the line of the lambda.
lambda_93(i) == ROW_WEIGHT
lambda_123(i) == 0
lambda_130_on(i) == 1
lambda_130(i) == 0
lambda_138(i) == 0

\* Calling a weight function value.
ApplyWeight(weight_func, i) ==
    CASE weight_func = "lambda_93" -> lambda_93(i)
      [] weight_func = "lambda_123" -> lambda_123(i)
      [] weight_func = "lambda_130" -> lambda_130(i)
      [] weight_func = "lambda_138" -> lambda_138(i)

\* Variant: the argument count compared with 1.
NeedsUsage_argc1(sys_argv) == Len(sys_argv) < 1

\* len(sys.argv) < 2
NeedsUsage(sys_argv) == Len(sys_argv) < 2

\* ConfigurationBuilder()...build() in CMonkeyConfiguration.create
BuildParams(matrix_filename) ==
    [organism |-> "hsa",
     matrix_filenames |-> <<matrix_filename>>,
     num_iterations |-> NUM_ITERATIONS,
     cache_dir |-> CACHE_DIR,
     num_clusters |-> NUM_CLUSTERS,
     sequence_types |-> SEQUENCE_TYPES,
     search_distances |-> SEARCH_DISTANCES,
     scan_distances |-> SCAN_DISTANCES]

NoParams == BuildParams("")

\* The configuration object: its parameters and the fields its accessors
\* cache their results in (0 while not yet computed).
NoConf ==
    [exists |-> FALSE, config_params |-> NoParams, checkpoint_file |-> "",
     matrix |-> 0, organism |-> 0, membership |-> 0, row_scoring |-> 0]

\* CMonkeyConfiguration.create(matrix_filename, checkpoint_file)
create(matrix_filename, checkpoint_file) ==
    [NoConf EXCEPT !.exists = TRUE,
                   !.config_params = BuildParams(matrix_filename),
                   !.checkpoint_file = checkpoint_file]

(***************************************************************************)
(* The methods of the configuration act on a world w = [conf, heap, calls, *)
(* returned] and yield [w |-> the world afterwards, ret |-> the reference  *)
(* returned].                                                              *)
(***************************************************************************)
World == [conf |-> conf, heap |-> heap, calls |-> calls, returned |-> returned]

\* Body(x) with x evaluated once: the value of a call bound to a name.
Let(x, Body(_)) == CHOOSE y \in {Body(v) : v \in {x}} : TRUE

New(w, obj) ==
    [w |-> [w EXCEPT !.heap = Append(@, obj)], ret |-> Len(w.heap) + 1]

\* CMonkeyConfiguration.read_matrix
read_matrix(w, filename) ==
    New([w EXCEPT !.calls.read_matrix = @ + 1],
        [kind |-> "DataMatrix", filename |-> filename,
         filters |-> <<"nochange_filter", "center_scale_filter">>,
         sorted_copy_of |-> 0])

\* ConfigurationBase.matrix: computed on first access and cached.
matrix(w) ==
    Let(IF w.conf.matrix = 0
        THEN Let(read_matrix(w, w.conf.config_params.matrix_filenames[1]),
                 LAMBDA m : [w |-> [m.w EXCEPT !.conf.matrix = m.ret], ret |-> m.ret])
        ELSE [w |-> w, ret |-> w.conf.matrix],
        LAMBDA r : [w |-> [r.w EXCEPT !.returned.matrix = @ \cup {r.ret}],
                    ret |-> r.ret])

\* DataMatrix.sorted_by_row_name: a new matrix
sorted_by_row_name(w, m) ==
    New(w, [kind |-> "DataMatrix", filename |-> w.heap[m].filename,
            filters |-> w.heap[m].filters, sorted_copy_of |-> m])

\* Variant: make_membership reading the matrix itself instead of asking
\* the accessor.
make_membership_rereads(w) ==
    Let(read_matrix([w EXCEPT !.calls.make_membership = @ + 1],
                    w.conf.config_params.matrix_filenames[1]), LAMBDA m :
    Let(sorted_by_row_name(m.w, m.ret), LAMBDA sorted :
        New(sorted.w,
            [kind |-> "ClusterMembership", matrix |-> sorted.ret,
             num_clusters |-> w.conf.config_params.num_clusters,
             from_checkpoint |-> FALSE])))

\* CMonkeyConfiguration.make_membership
make_membership(w) ==
    Let(matrix([w EXCEPT !.calls.make_membership = @ + 1]), LAMBDA m :
    Let(sorted_by_row_name(m.w, m.ret), LAMBDA sorted :
        New(sorted.w,
            [kind |-> "ClusterMembership", matrix |-> sorted.ret,
             num_clusters |-> w.conf.config_params.num_clusters,
             from_checkpoint |-> FALSE])))

\* ConfigurationBase.membership: computed on first access and cached; a run
\* resumed from a checkpoint loads the membership instead of seeding it.
membership(w) ==
    Let(IF w.conf.membership = 0
        THEN Let(IF w.conf.checkpoint_file = ""
                 THEN make_membership(w)
                 ELSE New(w, [kind |-> "ClusterMembership", matrix |-> 0,
                              num_clusters |-> w.conf.config_params.num_clusters,
                              from_checkpoint |-> TRUE]),
                 LAMBDA m : [w |-> [m.w EXCEPT !.conf.membership = m.ret],
                             ret |-> m.ret])
        ELSE [w |-> w, ret |-> w.conf.membership],
        LAMBDA r : [w |-> [r.w EXCEPT !.returned.membership = @ \cup {r.ret}],
                    ret |-> r.ret])

\* CMonkeyConfiguration.make_organism
make_organism(w) ==
    New([w EXCEPT !.calls.make_organism = @ + 1],
        [kind |-> "GenericOrganism", code |-> "hsa",
         thesaurus |-> THESAURUS_FILE,
         nw_factories |-> <<"parkinson_data/human_links_preprocessed.csv">>,
         seq_filenames |-> SEQ_FILENAMES,
         search_distances |-> SEARCH_DISTANCES,
         scan_distances |-> SCAN_DISTANCES])

\* ConfigurationBase.organism: computed on first access and cached.
organism(w) ==
    Let(IF w.conf.organism = 0
        THEN Let(make_organism(w),
                 LAMBDA o : [w |-> [o.w EXCEPT !.conf.organism = o.ret], ret |-> o.ret])
        ELSE [w |-> w, ret |-> w.conf.organism],
        LAMBDA r : [w |-> [r.w EXCEPT !.returned.organism = @ \cup {r.ret}],
                    ret |-> r.ret])

NoBackground == [organism |-> 0, seqtype |-> "", use_revcomp |-> FALSE]
NoSuite == [kind |-> "", max_width |-> 0, background_file |-> NoBackground]

NoLocals ==
    [row_scoring |-> 0,
     background_file_prom |-> NoBackground, background_file_p3utr |-> NoBackground,
     meme_suite_prom |-> NoSuite, meme_suite_p3utr |-> NoSuite,
     motif_scoring |-> 0, network_scoring |-> 0, weeder_scoring |-> 0]

\* meme.global_background_file(self.organism(), self.matrix().row_names(),
\*                             seqtype, use_revcomp=True)
global_background_file(w, seqtype) ==
    Let(organism(w), LAMBDA o :
    Let(matrix(o.w), LAMBDA m :
        [w |-> m.w,
         ret |-> [organism |-> o.ret, seqtype |-> seqtype, use_revcomp |-> TRUE]]))

\* meme.MemeSuite430(max_width=MAX_MOTIF_WIDTH, background_file=...)
MemeSuite430(background_file) ==
    [kind |-> "MemeSuite430", max_width |-> MAX_MOTIF_WIDTH,
     background_file |-> background_file]

\* row_scoring = microarray.RowScoringFunction(...)
RowScoringFunction(w) ==
    Let(membership(w), LAMBDA mb :
    Let(matrix(mb.w), LAMBDA mx :
        New(mx.w,
            [kind |-> "RowScoringFunction", organism |-> 0,
             membership |-> mb.ret, matrix |-> mx.ret,
             weight_func |-> "lambda_93", run_in_iteration |-> "always",
             seqtype |-> "", meme_suite |-> NoSuite, pvalue_filter |-> 0])))

\* motif_scoring = motif.MemeScoringFunction(...)
MemeScoringFunction(w, meme_suite_prom, meme_suite_p3utr) ==
    Let(organism(w), LAMBDA o :
    Let(membership(o.w), LAMBDA mb :
    Let(matrix(mb.w), LAMBDA mx :
        New(mx.w,
            [kind |-> "MemeScoringFunction", organism |-> o.ret,
             membership |-> mb.ret, matrix |-> mx.ret,
             weight_func |-> "lambda_123",
             run_in_iteration |-> "default_motif_iterations",
             seqtype |-> "upstream", meme_suite |-> meme_suite_prom,
             pvalue_filter |-> -20]))))

\* network_scoring = nw.ScoringFunction(...)
NetworkScoringFunction(w) ==
    Let(organism(w), LAMBDA o :
    Let(membership(o.w), LAMBDA mb :
    Let(matrix(mb.w), LAMBDA mx :
        New(mx.w,
            [kind |-> "network.ScoringFunction", organism |-> o.ret,
             membership |-> mb.ret, matrix |-> mx.ret,
             weight_func |-> "lambda_130",
             run_in_iteration |-> "default_network_iterations",
             seqtype |-> "", meme_suite |-> NoSuite, pvalue_filter |-> 0]))))

\* Variant: the Weeder function given the promoter suite.
WeederScoringFunction_prom(w, meme_suite_prom, meme_suite_p3utr) ==
    Let(organism(w), LAMBDA o :
    Let(membership(o.w), LAMBDA mb :
    Let(matrix(mb.w), LAMBDA mx :
        New(mx.w,
            [kind |-> "WeederScoringFunction", organism |-> o.ret,
             membership |-> mb.ret, matrix |-> mx.ret,
             weight_func |-> "lambda_138",
             run_in_iteration |-> "default_motif_iterations",
             seqtype |-> "p3utr", meme_suite |-> meme_suite_prom,
             pvalue_filter |-> -20]))))

\* weeder_scoring = motif.WeederScoringFunction(...)
WeederScoringFunction(w, meme_suite_prom, meme_suite_p3utr) ==
    Let(organism(w), LAMBDA o :
    Let(membership(o.w), LAMBDA mb :
    Let(matrix(mb.w), LAMBDA mx :
        New(mx.w,
            [kind |-> "WeederScoringFunction", organism |-> o.ret,
             membership |-> mb.ret, matrix |-> mx.ret,
             weight_func |-> "lambda_138",
             run_in_iteration |-> "default_motif_iterations",
             seqtype |-> "p3utr", meme_suite |-> meme_suite_p3utr,
             pvalue_filter |-> -20]))))

\* Variant: the list in the order the functions were created.
CombinerFunctions_as_created(row_scoring, network_scoring, motif_scoring, weeder_scoring) ==
    <<row_scoring, motif_scoring, network_scoring, weeder_scoring>>

\* The list handed to the combiner.
CombinerFunctions(row_scoring, network_scoring, motif_scoring, weeder_scoring) ==
    <<row_scoring, network_scoring, motif_scoring, weeder_scoring>>

\* return scoring.ScoringFunctionCombiner(self.membership(), [...])
ScoringFunctionCombiner(w, l) ==
    Let(membership(w), LAMBDA mb :
        New(mb.w,
            [kind |-> "ScoringFunctionCombiner", membership |-> mb.ret,
             scoring_functions |->
                 CombinerFunctions(l.row_scoring, l.network_scoring,
                                   l.motif_scoring, l.weeder_scoring)]))

NoCombine == [k |-> 1, acc |-> ZeroMatrix, row |-> ZeroMatrix,
              last |-> ZeroMatrix, last_invoked |-> FALSE]

\* The state when the interpreter starts the module as __main__.
MainInitWith(args, readable) ==
    /\ argv = args
    /\ ratio_readable = readable
    /\ pc = "start"
    /\ stdout = << >>
    /\ CHECKPOINT_FILE = ""
    /\ conf = NoConf
    /\ heap = << >>
    /\ calls = [read_matrix |-> 0, make_organism |-> 0, make_membership |-> 0]
    /\ returned = [matrix |-> {}, organism |-> {}, membership |-> {}]
    /\ locals = NoLocals
    /\ run_called = FALSE
    /\ iteration = 0
    /\ steps = 0
    /\ combine = NoCombine
    /\ exit_status = -1

MainInit ==
    \E args \in ArgvChoices, readable \in BOOLEAN : MainInitWith(args, readable)

\* The world after a method has run.
SetWorld(w) ==
    /\ conf' = w.conf
    /\ heap' = w.heap
    /\ calls' = w.calls
    /\ returned' = w.returned

\* An uncaught exception: the interpreter prints the traceback and exits with 1.
Uncaught ==
    /\ pc' = "exit"
    /\ exit_status' = 1

\* lines 147-149
PrintBanner ==
    /\ pc = "start"
    /\ stdout' = stdout \o
          <<"cMonkey (Python port) (c) 2011, Institute for Systems Biology",
            "This program is licensed under the General Public License V3.",
            "See README and LICENSE for details.\n">>
    /\ pc' = "check"
    /\ UNCHANGED <<argv, ratio_readable, CHECKPOINT_FILE, conf, heap, calls,
                   returned, locals, run_called, iteration, steps, combine,
                   exit_status>>
    /\ UNCHANGED rsat_vars

\* lines 150-151
PrintUsage ==
    /\ pc = "check"
    /\ NeedsUsage(argv)
    /\ stdout' = Append(stdout, "Usage: ./parkinson.sh <ratio-file> [checkpoint-file]")
    /\ pc' = "end"
    /\ UNCHANGED <<argv, ratio_readable, CHECKPOINT_FILE, conf, heap, calls,
                   returned, locals, run_called, iteration, steps, combine,
                   exit_status>>
    /\ UNCHANGED rsat_vars

\* lines 152-157: sys.argv[1] raises IndexError when there is no such element.
Configure ==
    /\ pc = "check"
    /\ ~NeedsUsage(argv)
    /\ IF Len(argv) < 2
       THEN /\ Uncaught
            /\ UNCHANGED <<CHECKPOINT_FILE, conf>>
       ELSE /\ CHECKPOINT_FILE' = IF Len(argv) > 2 THEN argv[3] ELSE CHECKPOINT_FILE
            /\ conf' = create(argv[2], CHECKPOINT_FILE')
            /\ pc' = "run"
            /\ UNCHANGED exit_status
    /\ UNCHANGED <<argv, ratio_readable, stdout, heap, calls, returned, locals,
                   run_called, iteration, steps, combine>>
    /\ UNCHANGED rsat_vars

\* line 158: cmonkey.run_cmonkey(conf) is entered; it asks the configuration
\* for its combined scoring function, and starts at iteration 0 or, resumed
\* from a checkpoint, at the checkpoint's iteration.
RunCMonkey ==
    /\ pc = "run"
    /\ run_called' = TRUE
    /\ iteration' \in IF conf.checkpoint_file = "" THEN {0} ELSE ResumePoints
    /\ pc' = "mrs_row"
    /\ UNCHANGED <<argv, ratio_readable, stdout, CHECKPOINT_FILE, conf, heap,
                   calls, returned, locals, steps, combine, exit_status>>
    /\ UNCHANGED rsat_vars

\* make_row_scoring, lines 91-94.  This is the first access to the matrix:
\* read_matrix raises when the ratio file cannot be read.
MakeRowScoring_row ==
    /\ pc = "mrs_row"
    /\ IF ratio_readable
       THEN \E r \in {RowScoringFunction(World)} :
                /\ SetWorld(r.w)
                /\ locals' = [locals EXCEPT !.row_scoring = r.ret]
                /\ pc' = "mrs_background"
                /\ UNCHANGED exit_status
       ELSE /\ Uncaught
            /\ calls' = [calls EXCEPT !.read_matrix = @ + 1]
            /\ UNCHANGED <<conf, heap, returned, locals>>
    /\ UNCHANGED <<argv, ratio_readable, stdout, CHECKPOINT_FILE, run_called,
                   iteration, steps, combine>>
    /\ UNCHANGED rsat_vars

\* lines 102-107
MakeRowScoring_background ==
    /\ pc = "mrs_background"
    /\ \E a \in {global_background_file(World, "upstream")} :
       \E b \in {global_background_file(a.w, "p3utr")} :
           /\ SetWorld(b.w)
           /\ locals' = [locals EXCEPT !.background_file_prom = a.ret,
                                       !.background_file_p3utr = b.ret]
    /\ pc' = "mrs_suites"
    /\ UNCHANGED <<argv, ratio_readable, stdout, CHECKPOINT_FILE, run_called,
                   iteration, steps, combine, exit_status>>
    /\ UNCHANGED rsat_vars

\* lines 108-113
MakeRowScoring_suites ==
    /\ pc = "mrs_suites"
    /\ locals' = [locals EXCEPT
                    !.meme_suite_prom = MemeSuite430(locals.background_file_prom),
                    !.meme_suite_p3utr = MemeSuite430(locals.background_file_p3utr)]
    /\ pc' = "mrs_motif"
    /\ UNCHANGED <<argv, ratio_readable, stdout, CHECKPOINT_FILE, conf, heap,
                   calls, returned, run_called, iteration, steps, combine,
                   exit_status>>
    /\ UNCHANGED rsat_vars

\* lines 115-125
MakeRowScoring_motif ==
    /\ pc = "mrs_motif"
    /\ \E r \in {MemeScoringFunction(World, locals.meme_suite_prom,
                                        locals.meme_suite_p3utr)} :
           /\ SetWorld(r.w)
           /\ locals' = [locals EXCEPT !.motif_scoring = r.ret]
    /\ pc' = "mrs_network"
    /\ UNCHANGED <<argv, ratio_readable, stdout, CHECKPOINT_FILE, run_called,
                   iteration, steps, combine, exit_status>>
    /\ UNCHANGED rsat_vars

\* lines 127-132
MakeRowScoring_network ==
    /\ pc = "mrs_network"
    /\ \E r \in {NetworkScoringFunction(World)} :
           /\ SetWorld(r.w)
           /\ locals' = [locals EXCEPT !.network_scoring = r.ret]
    /\ pc' = "mrs_weeder"
    /\ UNCHANGED <<argv, ratio_readable, stdout, CHECKPOINT_FILE, run_called,
                   iteration, steps, combine, exit_status>>
    /\ UNCHANGED rsat_vars

\* lines 134-140
MakeRowScoring_weeder ==
    /\ pc = "mrs_weeder"
    /\ \E r \in {WeederScoringFunction(World, locals.meme_suite_prom,
                                          locals.meme_suite_p3utr)} :
           /\ SetWorld(r.w)
           /\ locals' = [locals EXCEPT !.weeder_scoring = r.ret]
    /\ pc' = "mrs_combiner"
    /\ UNCHANGED <<argv, ratio_readable, stdout, CHECKPOINT_FILE, run_called,
                   iteration, steps, combine, exit_status>>
    /\ UNCHANGED rsat_vars

\* lines 142-143; ConfigurationBase.row_scoring keeps what make_row_scoring
\* returned, and the driver's loop begins.
MakeRowScoring_combiner ==
    /\ pc = "mrs_combiner"
    /\ \E r \in {ScoringFunctionCombiner(World, locals)} :
           SetWorld([r.w EXCEPT !.conf.row_scoring = r.ret])
    /\ pc' = "iterate"
    /\ UNCHANGED <<argv, ratio_readable, stdout, CHECKPOINT_FILE, locals,
                   run_called, iteration, steps, combine, exit_status>>
    /\ UNCHANGED rsat_vars

\* The combiner the configuration's row_scoring() returned.
Combiner == heap[conf.row_scoring]

\* The k-th registered scoring function.
Registered(k) == heap[Combiner.scoring_functions[k]]

\* weight(iteration) of a scoring function
Weight(f, i) == ApplyWeight(f.weight_func, i)

InIteration ==
    /\ pc = "iterate"
    /\ iteration < NUM_ITERATIONS
    /\ steps < MaxIterations
    /\ combine.k <= Len(Combiner.scoring_functions)

\* The combiner invokes the next registered function, scales its score matrix
\* by the function's weight for the iteration and adds it to the running sum.
CombinerInvokes ==
    /\ InIteration
    /\ \E m \in ScoreMatrices :
         LET f == Registered(combine.k)
         IN  combine' =
                [k |-> combine.k + 1,
                 acc |-> [p \in Pairs |-> combine.acc[p] + Weight(f, iteration) * m[p]],
                 row |-> IF f.kind = "RowScoringFunction" THEN m ELSE combine.row,
                 last |-> m,
                 last_invoked |-> TRUE]
    /\ UNCHANGED <<argv, ratio_readable, pc, stdout, CHECKPOINT_FILE, conf, heap,
                   calls, returned, locals, run_called, iteration, steps,
                   exit_status>>
    /\ UNCHANGED rsat_vars

\* The combiner leaves the next registered function out: its run_in_iteration
\* predicate does not hold for the iteration, or its weight is zero.
CombinerSkips ==
    /\ InIteration
    /\ LET f == Registered(combine.k)
       IN  \/ f.run_in_iteration # "always"
           \/ Weight(f, iteration) = 0
    /\ combine' = [combine EXCEPT !.k = @ + 1, !.last = ZeroMatrix,
                                  !.last_invoked = FALSE]
    /\ UNCHANGED <<argv, ratio_readable, pc, stdout, CHECKPOINT_FILE, conf, heap,
                   calls, returned, locals, run_called, iteration, steps,
                   exit_status>>
    /\ UNCHANGED rsat_vars

\* The driver takes the combined scores, asks the configuration for the
\* membership and the matrix to update the membership, and goes on to the
\* next iteration.
IterationEnds ==
    /\ pc = "iterate"
    /\ combine.k = Len(Combiner.scoring_functions) + 1
    /\ \E mb \in {membership(World)} :
       \E mx \in {matrix(mb.w)} :
           SetWorld(mx.w)
    /\ iteration' = iteration + 1
    /\ steps' = steps + 1
    /\ combine' = NoCombine
    /\ UNCHANGED <<argv, ratio_readable, pc, stdout, CHECKPOINT_FILE, locals,
                   run_called, exit_status>>
    /\ UNCHANGED rsat_vars

\* The driver's loop has made all its iterations; run_cmonkey returns.
DriverEnds ==
    /\ pc = "iterate"
    /\ iteration = NUM_ITERATIONS
    /\ pc' = "end"
    /\ UNCHANGED <<argv, ratio_readable, stdout, CHECKPOINT_FILE, conf, heap,
                   calls, returned, locals, run_called, iteration, steps,
                   combine, exit_status>>
    /\ UNCHANGED rsat_vars

\* The module's last statement has run: the interpreter exits with 0.
ProcessEnds ==
    /\ pc = "end"
    /\ pc' = "exit"
    /\ exit_status' = 0
    /\ UNCHANGED <<argv, ratio_readable, stdout, CHECKPOINT_FILE, conf, heap,
                   calls, returned, locals, run_called, iteration, steps,
                   combine>>
    /\ UNCHANGED rsat_vars

(***************************************************************************)
(*                         The specifications                              *)
(***************************************************************************)

\* The main program does not fetch from an RSAT mirror.
RsatIdle ==
    /\ base_url = "http://rsat.ccb.sickkids.ca"
    /\ base_url0 = base_url
    /\ server = {}
    /\ call = [c \in Callers |-> IdleCall]
    /\ next_opener = 0

Init == MainInit /\ RsatIdle

Next ==
    \/ PrintBanner
    \/ PrintUsage
    \/ Configure
    \/ RunCMonkey
    \/ MakeRowScoring_row
    \/ MakeRowScoring_background
    \/ MakeRowScoring_suites
    \/ MakeRowScoring_motif
    \/ MakeRowScoring_network
    \/ MakeRowScoring_weeder
    \/ MakeRowScoring_combiner
    \/ CombinerInvokes
    \/ CombinerSkips
    \/ IterationEnds
    \/ DriverEnds
    \/ ProcessEnds

Spec == Init /\ [][Next]_vars

RsatNext ==
    \E c \in Callers :
        \/ get_directory_html(c)
        \/ \E org \in Organisms : get_organism_file(c, org)
        \/ \E org \in Organisms : get_organism_names_file(c, org)
        \/ \E org \in Organisms : get_ensembl_organism_names_file(c, org)
        \/ ReadUrlEnds(c)
        \/ CallerContinues(c)

\* RsatDatabase.__init__(base_url); no fetch has been made.  The callers of
\* an RsatDatabase run apart from the main program.
RsatInit ==
    /\ base_url \in BaseUrls
    /\ base_url0 = base_url
    /\ server = {}
    /\ call = [c \in Callers |-> IdleCall]
    /\ next_opener = 0
    /\ MainInitWith(<<"parkinson.py">>, TRUE)

RsatSpec == RsatInit /\ [][RsatNext]_vars

(***************************************************************************)
(*                       Properties of rsat.py                             *)
(***************************************************************************)

Fetched(c) == call[c].pc = "done"
InProgress(c) == call[c].pc = "open"

\* C1: whichever fetch method was called, a fetch the mirror answered with
\* status 404 ends by raising DocumentNotFound and returns no document.
C1_NotFoundRaisesDocumentNotFound ==
    \A c \in Callers :
        Fetched(c) /\ call[c].status = 404 =>
            /\ call[c].result.kind = "raised"
            /\ call[c].result.exc = "DocumentNotFound"

C1_Witness ==
    \E c \in Callers :
        /\ Fetched(c)
        /\ call[c].status = 404
        /\ call[c].op = "get_ensembl_organism_names_file"

\* C2: a fetch the mirror answered with a status outside 2xx other than 404
\* ends with an error that is not DocumentNotFound; it never returns the
\* response body as if the fetch had succeeded.
C2_OtherErrorStatusRaisesTransportError ==
    \A c \in Callers :
        (/\ Fetched(c)
         /\ ~(200 <= call[c].status /\ call[c].status < 300)
         /\ call[c].status # 404) =>
            /\ call[c].result.kind = "raised"
            /\ call[c].result.exc # "DocumentNotFound"

\* C3: get_organism_names_file asks for
\* <base_url>/data/genomes/<organism>/genome/organism_names.tab, which is not
\* the document get_organism_file asks for.
C3_NamesFileIsRequested ==
    \A c \in Callers :
        call[c].pc # "idle" /\ call[c].op = "get_organism_names_file" =>
            /\ call[c].url = base_url \o "/data/genomes/" \o call[c].organism
                                      \o "/genome/organism_names.tab"
            /\ call[c].url # Join("/", get_organism_file_path(base_url, call[c].organism))

\* C4: the URL get_ensembl_organism_names_file asks for is the one
\* get_organism_names_file asks for, with the organism segment replaced by
\* <organism>_EnsEMBL and nothing else changed.
C4_EnsemblReplacesOrganismSegment ==
    \A c \in Callers :
        call[c].pc # "idle" /\ call[c].op = "get_ensembl_organism_names_file" =>
            call[c].url =
                Join("/", [get_organism_names_file_path(base_url, call[c].organism)
                              EXCEPT ![3] = call[c].organism \o "_EnsEMBL"])

C4_Witness ==
    \E c \in Callers :
        /\ Fetched(c)
        /\ call[c].op = "get_ensembl_organism_names_file"
        /\ call[c].organism = "Homo_sapiens"
        /\ call[c].result.kind = "returned"

\* The URL a fetch method asks for when it runs alone on the database as
\* constructed.
AloneUrl(op, org) ==
    Join("/", CASE op = "get_directory_html" ->
                       get_directory_html_path(base_url0)
                [] op = "get_organism_file" ->
                       get_organism_file_path(base_url0, org)
                [] op = "get_organism_names_file" ->
                       get_organism_names_file_path(base_url0, org)
                [] op = "get_ensembl_organism_names_file" ->
                       get_ensembl_organism_names_file_path(base_url0, org))

\* C8: a fetch leaves base_url as it was, concurrent fetches never use the
\* same opener, and each fetch asks for the URL and ends with the outcome
\* (body, DocumentNotFound or transport error) it would have running alone
\* against the same mirror, whatever the other callers do meanwhile.
C8_FetchesAreIndependent ==
    /\ base_url = base_url0
    /\ \A c, d \in Callers :
          c # d /\ InProgress(c) /\ InProgress(d) => call[c].opener # call[d].opener
    /\ \A c \in Callers :
          call[c].pc # "idle" => call[c].url = AloneUrl(call[c].op, call[c].organism)
    /\ \A c \in Callers :
          Fetched(c) =>
              /\ Cardinality(Answered(call[c].url)) = 1
              /\ \A a \in Answered(call[c].url) :
                    call[c].result = read_url(a[1], a[2], ServerBody(a[1], a[2]))

C8_Witness ==
    \E c, d \in Callers :
        /\ c # d
        /\ Fetched(c)
        /\ InProgress(d)
        /\ call[c].organism # call[d].organism
        /\ call[c].url # call[d].url
        /\ call[c].opener > call[d].opener

(***************************************************************************)
(*                     Properties of parkinson.py                          *)
(***************************************************************************)

UsageLine == "Usage: ./parkinson.sh <ratio-file> [checkpoint-file]"

\* C5: started without a ratio file, the program prints the usage message
\* and ends as a no-op: no configuration is created, run_cmonkey is never
\* entered, every position it is in short of the exit has a next step, and
\* the exit status is 0, that of a successful run.
C5_NoRatioFileIsNoOp ==
    Len(argv) < 2 =>
        /\ ~conf.exists
        /\ ~run_called
        /\ pc \in {"start", "check", "end", "exit"}
        /\ pc \in {"end", "exit"} => stdout[Len(stdout)] = UsageLine
        /\ pc = "exit" => exit_status = 0
        /\ pc # "exit" => exit_status = -1 /\ ENABLED Next

C5_Witness ==
    /\ Len(argv) < 2
    /\ pc = "exit"
    /\ Len(stdout) = 4

HasCombiner == conf.row_scoring # 0
RegisteredIndices == 1..Len(Combiner.scoring_functions)

\* C6: each of read_matrix, make_organism and make_membership is invoked at
\* most once, every call of matrix(), organism() or membership() returns the
\* same object, and the scoring functions and the combiner share one
\* membership, one matrix and one organism.
C6_AccessorsComputeOnce ==
    /\ calls.read_matrix <= 1
    /\ calls.make_organism <= 1
    /\ calls.make_membership <= 1
    /\ Cardinality(returned.matrix) <= 1
    /\ Cardinality(returned.organism) <= 1
    /\ Cardinality(returned.membership) <= 1
    /\ HasCombiner =>
          /\ Combiner.membership = conf.membership
          /\ \A k \in RegisteredIndices :
                /\ Registered(k).membership = conf.membership
                /\ Registered(k).matrix = conf.matrix
                /\ Registered(k).organism \in {0, conf.organism}

C6_Witness ==
    /\ pc = "iterate"
    /\ steps >= 1
    /\ calls = [read_matrix |-> 1, make_organism |-> 1, make_membership |-> 1]
    /\ Cardinality(returned.matrix) = 1
    /\ Cardinality(returned.organism) = 1
    /\ Cardinality(returned.membership) = 1

CombineDone == pc = "iterate" /\ HasCombiner /\ combine.k = Len(Combiner.scoring_functions) + 1

\* C7: for every iteration 0..NUM_ITERATIONS-1 the row scoring function weighs
\* 6 and the network, MEME and Weeder functions weigh 0, and the combined
\* score of an iteration is 6 times the row scoring function's output for
\* every (gene, cluster) pair, whether the zero-weight functions were invoked
\* or left out.
C7_CombinedIsSixTimesRow ==
    /\ (pc = "iterate" /\ combine.k = 1) =>
          \A i \in 0..(NUM_ITERATIONS - 1) : \A k \in RegisteredIndices :
              Weight(Registered(k), i) =
                  IF Registered(k).kind = "RowScoringFunction" THEN 6 ELSE 0
    /\ CombineDone => \A p \in Pairs : combine.acc[p] = 6 * combine.row[p]

C7_Witness ==
    /\ CombineDone
    /\ combine.last_invoked
    /\ \E p \in Pairs : combine.last[p] # 0
    /\ \E p \in Pairs : combine.row[p] # 0
    /\ iteration = NUM_ITERATIONS - 1

\* The state part of C9.
C9_Order ==
    HasCombiner =>
        /\ Combiner.scoring_functions =
              <<locals.row_scoring, locals.network_scoring,
                locals.motif_scoring, locals.weeder_scoring>>
        /\ \A k \in RegisteredIndices :
              /\ Combiner.scoring_functions[k] # 0
              /\ Combiner.scoring_functions[k] < conf.row_scoring
        /\ [k \in RegisteredIndices |-> Registered(k).kind] =
              <<"RowScoringFunction", "network.ScoringFunction",
                "MemeScoringFunction", "WeederScoringFunction">>
        /\ Registered(3).seqtype = "upstream"
        /\ Registered(4).seqtype = "p3utr"

\* C9: the combiner is built only after the four scoring functions exist, it
\* registers them in the order row, network, MEME (upstream), Weeder (p3utr),
\* and once built neither it nor its registered functions ever change.
C9_FixedRegistrationOrder ==
    /\ []C9_Order
    /\ [][HasCombiner =>
             /\ conf'.row_scoring = conf.row_scoring
             /\ heap'[conf.row_scoring] = heap[conf.row_scoring]
             /\ \A k \in RegisteredIndices :
                   heap'[Combiner.scoring_functions[k]] = Registered(k)]_vars

C9_Witness ==
    /\ HasCombiner
    /\ pc = "end"
    /\ steps >= 2

MotifKinds == {"MemeScoringFunction", "WeederScoringFunction"}

\* The registered motif-based scoring functions of a sequence type.
MotifFunctions(seqtype) ==
    {k \in RegisteredIndices :
        Registered(k).kind \in MotifKinds /\ Registered(k).seqtype = seqtype}

\* C10: each sequence type of SEQUENCE_TYPES has exactly one motif-based
\* scoring function in the combiner, whose background file was made for that
\* sequence type and for the function's organism, and the organism has a
\* sequence file of that region, a search distance and a scan distance for it;
\* there is no motif-based function of another sequence type.
C10_OneMotifFunctionPerSequenceType ==
    HasCombiner =>
        /\ Cardinality({k \in RegisteredIndices : Registered(k).kind \in MotifKinds})
              = Len(SEQUENCE_TYPES)
        /\ \A n \in 1..Len(SEQUENCE_TYPES) :
              LET seqtype == SEQUENCE_TYPES[n]
              IN  /\ Cardinality(MotifFunctions(seqtype)) = 1
                  /\ \A k \in MotifFunctions(seqtype) :
                        LET f == Registered(k)
                            org == heap[f.organism]
                        IN  /\ f.meme_suite.background_file.seqtype = seqtype
                            /\ f.meme_suite.background_file.organism = f.organism
                            /\ seqtype \in DOMAIN org.seq_filenames
                            /\ RegionOfFile(org.seq_filenames[seqtype]) = seqtype
                            /\ seqtype \in DOMAIN org.search_distances
                            /\ seqtype \in DOMAIN org.scan_distances

C10_Witness ==
    /\ HasCombiner
    /\ pc = "iterate"
    /\ Cardinality(MotifFunctions("p3utr")) = 1
    /\ Cardinality(MotifFunctions("upstream")) = 1

====
